---- MODULE Spec2Model ----
(***************************************************************************)
(* The two CTX codecs of the repository:                                   *)
(*   - the dynamic-scale 32-bit format  (src/ctx.go)                       *)
(*   - the fixed-epoch 40-bit format    (src/unnamed/part_000)             *)
(*                                                                         *)
(* TLC's integers are 32-bit, so the machine integers of the code (uint32, *)
(* uint64, int64, and the mantissa of a float64) are numbers of any size,  *)
(* kept as sequences of 13-bit limbs, least significant limb first.        *)
(* float64 values are modelled exactly: sign, 53-bit mantissa, binary      *)
(* exponent, every operation rounded to nearest, ties to even.             *)
(***************************************************************************)
EXTENDS Integers, Sequences, FiniteSets, TLC

Max(x, y) == IF x >= y THEN x ELSE y
Min(x, y) == IF x <= y THEN x ELSE y

\* F(e), with e evaluated once: a local variable of the code
Bind(e, F(_)) == CHOOSE r \in {F(v) : v \in {e}} : TRUE

(***************************************************************************)
(* Natural numbers of any size: limbs in base 2^13, least significant      *)
(* first, no leading (most significant) zero limb; zero is << >>.          *)
(***************************************************************************)
Base == 2^13

Limb(a, j) == IF j >= 1 /\ j <= Len(a) THEN a[j] ELSE 0

RECURSIVE NNorm(_)
NNorm(a) == IF Len(a) = 0 THEN << >>
            ELSE IF a[Len(a)] # 0 THEN a
            ELSE NNorm(SubSeq(a, 1, Len(a) - 1))

\* the natural n (0 <= n < 2^31) as limbs
NOfInt(n) == NNorm(<<n % Base, (n \div Base) % Base, n \div (Base * Base)>>)

\* the value of a, for a < 2^31
NToInt(a) == Limb(a, 1) + Base * Limb(a, 2) + Base * Base * Limb(a, 3)

RECURSIVE NAddRec(_, _, _, _, _)
NAddRec(a, b, j, n, c) ==
    IF j > n THEN (IF c = 1 THEN <<1>> ELSE << >>)
    ELSE Bind(Limb(a, j) + Limb(b, j) + c, LAMBDA s :
              <<s % Base>> \o NAddRec(a, b, j + 1, n, s \div Base))

NAdd(a, b) == NNorm(NAddRec(a, b, 1, Max(Len(a), Len(b)), 0))

\* a - b, for a >= b
RECURSIVE NSubRec(_, _, _, _, _)
NSubRec(a, b, j, n, br) ==
    IF j > n THEN << >>
    ELSE Bind(Limb(a, j) - Limb(b, j) - br, LAMBDA s :
              <<s % Base>> \o NSubRec(a, b, j + 1, n, IF s < 0 THEN 1 ELSE 0))

NSub(a, b) == NNorm(NSubRec(a, b, 1, Len(a), 0))

\* -1, 0, 1 as a < b, a = b, a > b
RECURSIVE NCmpRec(_, _, _)
NCmpRec(a, b, j) ==
    IF j = 0 THEN 0
    ELSE IF a[j] > b[j] THEN 1
    ELSE IF a[j] < b[j] THEN -1
    ELSE NCmpRec(a, b, j - 1)

NCmp(a, b) == IF Len(a) > Len(b) THEN 1
              ELSE IF Len(a) < Len(b) THEN -1
              ELSE NCmpRec(a, b, Len(a))

\* a * 2^k
NShl(a, k) ==
    LET q == k \div 13
        s == k % 13
    IN  NNorm(<< >> \o [j \in 1..(Len(a) + q + 1) |->
                 IF j <= q THEN 0
                 ELSE ((Limb(a, j - q) * 2^s) % Base)
                      + (Limb(a, j - q - 1) \div 2^(13 - s))])

\* a \div 2^k
NShr(a, k) ==
    LET q == k \div 13
        s == k % 13
    IN  NNorm(<< >> \o [j \in 1..Max(0, Len(a) - q) |->
                 (Limb(a, j + q) \div 2^s)
                 + ((Limb(a, j + q + 1) * 2^(13 - s)) % Base)])

\* a % 2^k: the low k bits of a
NLow(a, k) ==
    LET q == k \div 13
        s == k % 13
    IN  NNorm(<< >> \o [j \in 1..Min(Len(a), q + 1) |->
                 IF j <= q THEN a[j] ELSE a[j] % 2^s])

\* bit i of a, bit 0 the least significant
NBit(a, i) == (Limb(a, (i \div 13) + 1) \div 2^(i % 13)) % 2

RECURSIVE IntLen(_)
IntLen(x) == IF x = 0 THEN 0 ELSE 1 + IntLen(x \div 2)

\* the number of significant bits of a
NBitLen(a) == IF Len(a) = 0 THEN 0 ELSE 13 * (Len(a) - 1) + IntLen(a[Len(a)])

\* bitwise and of two limbs
RECURSIVE IAnd(_, _)
IAnd(x, y) == IF x = 0 \/ y = 0 THEN 0
              ELSE (x % 2) * (y % 2) + 2 * IAnd(x \div 2, y \div 2)

NAnd(a, b) == NNorm(<< >> \o [j \in 1..Min(Len(a), Len(b)) |-> IAnd(a[j], b[j])])

NOr(a, b) == NNorm(<< >> \o [j \in 1..Max(Len(a), Len(b)) |->
                      Limb(a, j) + Limb(b, j) - IAnd(Limb(a, j), Limb(b, j))])

\* column k of the schoolbook product: the sum of a[i] * b[k + 1 - i]
RECURSIVE NColSum(_, _, _, _)
NColSum(a, b, k, i) ==
    IF i > Min(k, Len(a)) THEN 0
    ELSE Limb(a, i) * Limb(b, k + 1 - i) + NColSum(a, b, k, i + 1)

RECURSIVE NMulRec(_, _, _, _)
NMulRec(a, b, k, c) ==
    IF k > Len(a) + Len(b) THEN << >>
    ELSE Bind(NColSum(a, b, k, Max(1, k + 1 - Len(b))) + c, LAMBDA s :
              <<s % Base>> \o NMulRec(a, b, k + 1, s \div Base))

\* a * b, the shorter factor first (at most 31 limbs, so a column fits 2^31)
NMul(a, b) == IF Len(a) <= Len(b) THEN NNorm(NMulRec(a, b, 1, 0))
              ELSE NNorm(NMulRec(b, a, 1, 0))

\* <<quotient, remainder (an integer)>> of a by the integer d, 0 < d < 2^17:
\* short division over the limbs j..1 of a, with quotient limbs q so far
RECURSIVE NDivSmallRec(_, _, _, _, _)
NDivSmallRec(a, d, j, q, r) ==
    IF j = 0 THEN <<NNorm(q), r>>
    ELSE Bind(r * Base + a[j], LAMBDA x :
         Bind(<<x \div d>> \o q, LAMBDA q2 :
              NDivSmallRec(a, d, j - 1, q2, x % d)))

RECURSIVE IntTz(_)
IntTz(x) == IF x % 2 = 1 THEN 0 ELSE 1 + IntTz(x \div 2)

\* the number of trailing zero bits of a > 0
RECURSIVE NTz(_, _)
NTz(a, j) == IF a[j] # 0 THEN 13 * (j - 1) + IntTz(a[j]) ELSE NTz(a, j + 1)

\* a * d for an integer 0 <= d < 2^13
RECURSIVE NMulSmallRec(_, _, _, _)
NMulSmallRec(a, d, j, c) ==
    IF j > Len(a) THEN (IF c = 0 THEN << >> ELSE <<c>>)
    ELSE Bind(a[j] * d + c, LAMBDA x :
              <<x % Base>> \o NMulSmallRec(a, d, j + 1, x \div Base))

NMulSmall(a, d) == NNorm(NMulSmallRec(a, d, 1, 0))

\* <<d + k, r - k*b>> for the least k with r - k*b < b
RECURSIVE NDivFix(_, _, _)
NDivFix(r, b, d) ==
    IF NCmp(r, b) >= 0
    THEN Bind(NSub(r, b), LAMBDA r2 : NDivFix(r2, b, d + 1))
    ELSE <<d, r>>

\* long division in base 2^13 over the limbs j..1 of a; the top limb of b is
\* at least 2^12, r < b is the remainder and q the quotient of the limbs above.
\* The digit is estimated from the top two limbs of the running remainder and
\* the top limb of b (an under-estimate by at most 3), then corrected.
RECURSIVE NDivLimbRec(_, _, _, _, _)
NDivLimbRec(a, b, j, q, r) ==
    IF j = 0 THEN <<NNorm(q), r>>
    ELSE Bind(NNorm(<<a[j]>> \o r), LAMBDA r2 :
         Bind((Limb(r2, Len(b) + 1) * Base + Limb(r2, Len(b)))
                  \div (b[Len(b)] + 1), LAMBDA de :
         Bind(NDivFix(NSub(r2, NMulSmall(b, de)), b, de), LAMBDA dr :
         Bind(<<dr[1]>> \o q, LAMBDA q2 :
              NDivLimbRec(a, b, j - 1, q2, dr[2])))))

\* <<quotient, remainder>> of a by b, for b of two limbs or more: both are
\* shifted left until the top limb of b has its top bit set
NDivLong(a, b) ==
    Bind(13 - IntLen(b[Len(b)]), LAMBDA sh :
    Bind(NShl(a, sh), LAMBDA a2 :
    Bind(NShl(b, sh), LAMBDA b2 :
    Bind(NDivLimbRec(a2, b2, Len(a2), << >>, << >>), LAMBDA qr :
         <<qr[1], NShr(qr[2], sh)>>))))

\* <<quotient, remainder>> of a by b > 0.  Trailing zero bits of b are divided
\* out first (a = q*b + r  iff  a \div 2^z = q * (b \div 2^z) + (r \div 2^z)
\* with the low z bits of a those of r); a divisor left below 2^17 takes the
\* short division.
NDivMod(a, b) ==
    Bind(NTz(b, 1), LAMBDA z :
    Bind(NShr(b, z), LAMBDA b2 :
    Bind(NShr(a, z), LAMBDA a2 :
    Bind(IF NBitLen(b2) <= 17
         THEN Bind(NDivSmallRec(a2, NToInt(b2), Len(a2), << >>, 0),
                   LAMBDA sr : <<sr[1], NOfInt(sr[2])>>)
         ELSE NDivLong(a2, b2), LAMBDA qr :
         <<qr[1], NAdd(NShl(qr[2], z), NLow(a, z))>>))))

(***************************************************************************)
(* float64: [s |-> sign bit, m |-> mantissa, e |-> exponent], the value    *)
(* (-1)^s * m * 2^e with 2^52 <= m < 2^53, or m = 0 (then s = 0, e = 0).   *)
(* The values the codec computes stay far from overflow and from the       *)
(* subnormal range, so the exponent is unbounded here.                     *)
(***************************************************************************)
FZero == [s |-> 0, m |-> << >>, e |-> 0]

\* (-1)^s * (n + [a nonzero part below 1 if sticky]) * 2^e, rounded to
\* nearest, ties to even; with sticky set n has at least 55 bits
FRound(s, n, e, sticky) ==
    Bind(NBitLen(n), LAMBDA len :
         IF len = 0 THEN FZero
         ELSE IF len <= 53
         THEN [s |-> s, m |-> NShl(n, 53 - len), e |-> e - (53 - len)]
         ELSE Bind(NShr(n, len - 53), LAMBDA q :
              Bind(NCmp(NLow(n, len - 53), NShl(<<1>>, len - 54)), LAMBDA c :
              Bind(IF c > 0 \/ (c = 0 /\ (sticky \/ NBit(q, 0) = 1))
                   THEN NAdd(q, <<1>>) ELSE q, LAMBDA q2 :
                   IF NBitLen(q2) = 54
                   THEN [s |-> s, m |-> NShr(q2, 1), e |-> e + (len - 53) + 1]
                   ELSE [s |-> s, m |-> q2, e |-> e + (len - 53)]))))

\* float64(n) for a natural n, float64(k) for an integer k
FOfNat(n) == FRound(0, n, 0, FALSE)
FOfInt(k) == FRound(IF k < 0 THEN 1 ELSE 0, NOfInt(IF k < 0 THEN 0 - k ELSE k),
                    0, FALSE)

FNeg(a) == IF Len(a.m) = 0 THEN a ELSE [a EXCEPT !.s = 1 - a.s]
\* math.Abs
FAbs(a) == [a EXCEPT !.s = 0]

FMul(a, b) ==
    Bind(NMul(a.m, b.m), LAMBDA p : FRound((a.s + b.s) % 2, p, a.e + b.e, FALSE))

\* a / b for b # 0
FDiv(a, b) ==
    IF Len(a.m) = 0 THEN FZero
    ELSE Bind(NDivMod(NShl(a.m, 56), b.m), LAMBDA qr :
              FRound((a.s + b.s) % 2, qr[1], a.e - b.e - 56, Len(qr[2]) # 0))

\* -1, 0, 1 as |a| < |b|, |a| = |b|, |a| > |b|
FCmpMag(a, b) ==
    IF Len(a.m) = 0 \/ Len(b.m) = 0
    THEN (IF Len(a.m) # 0 THEN 1 ELSE IF Len(b.m) # 0 THEN -1 ELSE 0)
    ELSE IF a.e > b.e THEN 1
    ELSE IF a.e < b.e THEN -1
    ELSE NCmp(a.m, b.m)

\* -1, 0, 1 as a < b, a = b, a > b
FCmp(a, b) ==
    IF a.s # b.s THEN (IF Len(a.m) = 0 /\ Len(b.m) = 0 THEN 0
                       ELSE IF a.s = 1 THEN -1 ELSE 1)
    ELSE (IF a.s = 0 THEN 1 ELSE -1) * FCmpMag(a, b)

FAdd(a, b) ==
    IF Len(a.m) = 0 THEN b
    ELSE IF Len(b.m) = 0 THEN a
    ELSE Bind(NShl(a.m, a.e - Min(a.e, b.e)), LAMBDA x :
         Bind(NShl(b.m, b.e - Min(a.e, b.e)), LAMBDA y :
         Bind(NCmp(x, y), LAMBDA c :
              FRound(IF a.s = b.s \/ c > 0 THEN a.s ELSE b.s,
                     IF a.s = b.s THEN NAdd(x, y)
                     ELSE IF c >= 0 THEN NSub(x, y) ELSE NSub(y, x),
                     Min(a.e, b.e), FALSE))))

FSub(a, b) == FAdd(a, FNeg(b))

\* the integer part of |a|, as a natural (truncation toward zero)
FTruncMag(a) == IF a.e >= 0 THEN NShl(a.m, a.e) ELSE NShr(a.m, 0 - a.e)

(***************************************************************************)
(* int64 and uint64 values are naturals below 2^64; an int64 is kept as    *)
(* its two's-complement bit pattern, so that uint64(x) is x itself.        *)
(***************************************************************************)
Two64 == NShl(<<1>>, 64)
MinInt64 == NShl(<<1>>, 63)
MaxInt64 == NSub(MinInt64, <<1>>)

I64OfInt(k) == IF k >= 0 THEN NOfInt(k) ELSE NSub(Two64, NOfInt(0 - k))
I64IsNeg(x) == NBit(x, 63) = 1
\* |x| as a natural
I64Mag(x) == IF I64IsNeg(x) THEN NSub(Two64, x) ELSE x
\* the int64 of sign s (1: negative) and magnitude mag <= 2^63
I64OfMag(s, mag) == IF s = 1 /\ Len(mag) # 0 THEN NSub(Two64, mag) ELSE mag
I64Add(x, y) == NLow(NAdd(x, y), 64)
I64Sub(x, y) == NLow(NAdd(x, NSub(Two64, y)), 64)
I64Mul(x, y) == NLow(NMul(x, y), 64)

\* float64(x) for an int64 x
FOfI64(x) ==
    Bind(I64Mag(x), LAMBDA mag : FRound(IF I64IsNeg(x) THEN 1 ELSE 0, mag, 0, FALSE))

(***************************************************************************)
(* Conversion of a float64 to an integer type truncates toward zero.  When *)
(* the value does not fit, the Go specification leaves the result to the   *)
(* implementation: amd64's CVTTSD2SQ yields the bit pattern 2^63 for every *)
(* value that does not fit, arm64's FCVTZS saturates.  On both, a float64  *)
(* becomes a uint32 by conversion to int64 and truncation to 32 bits.      *)
(***************************************************************************)
Archs == {"amd64", "arm64"}

I64OfFloat(f, arch) ==
    Bind(FTruncMag(f), LAMBDA mag :
         IF NBitLen(mag) <= 63 \/ (f.s = 1 /\ mag = MinInt64)
         THEN I64OfMag(f.s, mag)
         ELSE IF arch = "amd64" THEN MinInt64
         ELSE IF f.s = 1 THEN MinInt64 ELSE MaxInt64)

U32OfFloat(f, arch) == NLow(I64OfFloat(f, arch), 32)

(***************************************************************************)
(* time.Time: an instant, [sec |-> int64 seconds since the Unix epoch,     *)
(* nsec |-> nanoseconds within the second, 0..999999999].                  *)
(***************************************************************************)
Billion == NOfInt(10^9)

\* t.Unix(), t.Nanosecond(), t.UnixNano()
Unix(t) == t.sec
Nanosecond(t) == t.nsec
UnixNano(t) == I64Add(I64Mul(t.sec, Billion), NOfInt(t.nsec))

\* time.Unix(sec, nsec): nsec outside [0, 1e9) is carried into sec
TimeUnix(sec, nsec) ==
    IF I64IsNeg(nsec) \/ NCmp(nsec, Billion) >= 0
    THEN Bind(NDivMod(I64Mag(nsec), Billion), LAMBDA qr :
         Bind(I64OfMag(IF I64IsNeg(nsec) THEN 1 ELSE 0, qr[1]), LAMBDA n :
         Bind(I64Sub(nsec, I64Mul(n, Billion)), LAMBDA ns2 :
              IF I64IsNeg(ns2)
              THEN [sec  |-> I64Sub(I64Add(sec, n), <<1>>),
                    nsec |-> NToInt(I64Add(ns2, Billion))]
              ELSE [sec |-> I64Add(sec, n), nsec |-> NToInt(ns2)])))
    ELSE [sec |-> sec, nsec |-> NToInt(nsec)]

\* the natural with the hexadecimal digits ds, most significant first
RECURSIVE HexRec(_, _, _)
HexRec(ds, i, acc) ==
    IF i > Len(ds) THEN acc
    ELSE Bind(NAdd(NShl(acc, 4), NOfInt(ds[i])), LAMBDA acc2 :
              HexRec(ds, i + 1, acc2))

Hex(ds) == HexRec(ds, 1, << >>)

\* uint32(x), byte(x) of a natural x
U32(x) == NLow(x, 32)
Byte(x) == NToInt(NLow(x, 8))

(***************************************************************************)
(* The dynamic-scale format, src/ctx.go: type CTX uint32.                  *)
(***************************************************************************)
scaleMask == Hex(<<12, 0, 0, 0, 0, 0, 0, 0>>)   \* 0xC0000000
signMask  == Hex(<<2, 0, 0, 0, 0, 0, 0, 0>>)    \* 0x20000000
valueMask == Hex(<<1, 15, 15, 15, 15, 0, 0, 0>>) \* 0x1FFFF000
extraMask == Hex(<<0, 0, 0, 0, 0, 15, 0, 0>>)   \* 0x00000F00
fracMask  == Hex(<<0, 0, 0, 0, 0, 0, 15, 15>>)  \* 0x000000FF

scaleShift == 30
signShift == 29
valueShift == 12
extraShift == 8
fracShift == 0

fracBits == 8
fracMultiple == 2^fracBits

scaleNano == 0
scaleMicro == 1
scaleMilli == 2
scaleSecond == 3

\* the float64 constants of the code; 1e-9, 1e-6 and 1e-3 are the float64
\* nearest to each, which is the correctly rounded quotient of two exact ones
F1 == FOfInt(1)
F1000 == FOfInt(1000)
F1e9 == FOfInt(10^9)
F1e12 == FMul(FOfInt(10^6), FOfInt(10^6))
F1e15 == FMul(FOfInt(10^9), FOfInt(10^6))
FMaxInt32 == FOfInt(2147483647)
FFracMultiple == FOfInt(fracMultiple)

scaleFactors == <<FDiv(F1, F1e9), FDiv(F1, FOfInt(10^6)), FDiv(F1, F1000), F1>>

\* math.Pow(x, y) for an integer y >= 0 (the portable Go implementation):
\* the product of the squares x^(2^k) for the bits k of y, every
\* multiplication rounded
RECURSIVE PowRec(_, _, _)
PowRec(x, i, a) ==
    IF i = 0 THEN a
    ELSE Bind(IF i % 2 = 1 THEN FMul(a, x) ELSE a, LAMBDA a2 :
         Bind(FMul(x, x), LAMBDA x2 : PowRec(x2, i \div 2, a2)))

MathPow(x, y) == PowRec(x, y, F1)

\* NewCTX, lines 58-65: the loop that divides absDiff by 1000 while it is at
\* least math.MaxInt32, counting in extra and stopping at 15
RECURSIVE ExtraLoop(_, _)
ExtraLoop(absDiff, extra) ==
    IF FCmp(absDiff, FMaxInt32) >= 0
    THEN IF extra + 1 >= 15 THEN extra + 1
         ELSE Bind(FDiv(absDiff, F1000), LAMBDA a2 : ExtraLoop(a2, extra + 1))
    ELSE extra

\* NewCTX, lines 48-56
SelectScale(absDiff) ==
    IF FCmp(absDiff, F1e9) < 0 THEN scaleNano
    ELSE IF FCmp(absDiff, F1e12) < 0 THEN scaleMicro
    ELSE IF FCmp(absDiff, F1e15) < 0 THEN scaleMilli
    ELSE scaleSecond

\* SplitValue without math.Abs around the integer part
SplitValueSigned(diff, scale, extra, arch) ==
    Bind(FMul(scaleFactors[scale + 1], MathPow(F1000, extra)), LAMBDA scaleFactor :
    Bind(FMul(FOfI64(diff), scaleFactor), LAMBDA value :
    Bind(U32OfFloat(FOfI64(I64OfFloat(value, arch)), arch), LAMBDA intPart :
    Bind(FSub(FAbs(value), FOfNat(intPart)), LAMBDA rest :
    Bind(U32OfFloat(FMul(rest, FFracMultiple), arch), LAMBDA fracPart :
         [intPart |-> intPart, fracPart |-> fracPart])))))

\* NewCTX, lines 67-73: [intPart, fracPart], both uint32
SplitValue(diff, scale, extra, arch) ==
    Bind(FMul(scaleFactors[scale + 1], MathPow(F1000, extra)), LAMBDA scaleFactor :
    Bind(FMul(FOfI64(diff), scaleFactor), LAMBDA value :
    Bind(FOfI64(I64OfFloat(value, arch)), LAMBDA whole :
    Bind(U32OfFloat(FAbs(whole), arch), LAMBDA intPart :
    Bind(FSub(FAbs(value), FOfNat(intPart)), LAMBDA rest :
    Bind(U32OfFloat(FMul(rest, FFracMultiple), arch), LAMBDA fracPart :
         [intPart |-> intPart, fracPart |-> fracPart]))))))

\* Pack32 without the mask on the integer part
Pack32Unmasked(scale, negative, intPart, extra, fracPart) ==
    Bind(U32(NShl(NOfInt(scale), scaleShift)), LAMBDA r1 :
    Bind(IF negative THEN NOr(r1, U32(NShl(<<1>>, signShift))) ELSE r1, LAMBDA r2 :
    Bind(NOr(r2, U32(NShl(intPart, valueShift))), LAMBDA r3 :
    Bind(NOr(r3, U32(NShl(NAnd(NOfInt(extra), Hex(<<15>>)), extraShift))),
         LAMBDA r4 : NOr(r4, NAnd(fracPart, Hex(<<15, 15>>)))))))

\* NewCTX, lines 75-85: the fields packed into a uint32
Pack32(scale, negative, intPart, extra, fracPart) ==
    Bind(U32(NShl(NOfInt(scale), scaleShift)), LAMBDA r1 :
    Bind(IF negative THEN NOr(r1, U32(NShl(<<1>>, signShift))) ELSE r1, LAMBDA r2 :
    Bind(NOr(r2, U32(NShl(NAnd(intPart, Hex(<<1, 15, 15, 15, 15>>)),
                          valueShift))), LAMBDA r3 :
    Bind(NOr(r3, U32(NShl(NAnd(NOfInt(extra), Hex(<<15>>)), extraShift))),
         LAMBDA r4 : NOr(r4, NAnd(fracPart, Hex(<<15, 15>>)))))))

NewCTX32(t, arch) ==
    Bind(UnixNano(t), LAMBDA diff :
    Bind(FAbs(FOfI64(diff)), LAMBDA absDiff :
    Bind(SelectScale(absDiff), LAMBDA scale :
    Bind(ExtraLoop(absDiff, 0), LAMBDA extra :
    Bind(SplitValue(diff, scale, extra, arch), LAMBDA parts :
         Pack32(scale, I64IsNeg(diff), parts.intPart, extra, parts.fracPart))))))

\* NewCTX, lines 42-73: the values in hand when the packing starts
Parts32(t, arch) ==
    Bind(UnixNano(t), LAMBDA diff :
    Bind(FAbs(FOfI64(diff)), LAMBDA absDiff :
    Bind(SelectScale(absDiff), LAMBDA scale :
    Bind(ExtraLoop(absDiff, 0), LAMBDA extra :
    Bind(SplitValue(diff, scale, extra, arch), LAMBDA parts :
         [scale |-> scale, negative |-> I64IsNeg(diff),
          intPart |-> parts.intPart, extra |-> extra,
          fracPart |-> parts.fracPart])))))

Time32(c, arch) ==
    Bind(NToInt(NShr(NAnd(U32(c), scaleMask), scaleShift)), LAMBDA scale :
    Bind(NShr(NAnd(U32(c), valueMask), valueShift), LAMBDA value :
    Bind(NToInt(NShr(NAnd(U32(c), extraMask), extraShift)), LAMBDA extra :
    Bind(FDiv(FOfNat(NAnd(U32(c), fracMask)), FFracMultiple), LAMBDA frac :
    Bind(FMul(scaleFactors[scale + 1], MathPow(F1000, extra)), LAMBDA scaleFactor :
    Bind(FDiv(FAdd(FOfNat(value), frac), scaleFactor), LAMBDA totalValue :
    Bind(IF Len(NAnd(U32(c), signMask)) # 0 THEN FNeg(totalValue)
         ELSE totalValue, LAMBDA signed :
         TimeUnix(<< >>, I64OfFloat(signed, arch)))))))))

\* Bytes with the least significant byte first
Bytes32LittleEndian(c) ==
    <<Byte(U32(c)), Byte(NShr(U32(c), 8)),
      Byte(NShr(U32(c), 16)), Byte(NShr(U32(c), 24))>>

Bytes32(c) ==
    <<Byte(NShr(U32(c), 24)), Byte(NShr(U32(c), 16)),
      Byte(NShr(U32(c), 8)), Byte(U32(c))>>

FromBytes32(b) ==
    IF Len(b) # 4 THEN << >>
    ELSE NOr(NOr(U32(NShl(NOfInt(b[1]), 24)), U32(NShl(NOfInt(b[2]), 16))),
             NOr(U32(NShl(NOfInt(b[3]), 8)), NOfInt(b[4])))

(***************************************************************************)
(* The fixed-epoch format, src/unnamed/part_000: type CTX uint64.          *)
(***************************************************************************)
epoch == 1577836800
secondMask == 1073741823
nanoMask == 1023
nanoDivisor == 1000000

\* a panic of the Go runtime (index or slice bounds out of range)
Panic == <<-2>>

\* NewCTX with the seconds held at the largest value of the field instead of
\* wrapping
NewCTX40Saturating(t) ==
    LET seconds == I64Sub(Unix(t), NOfInt(epoch))
        nanos   == NOfInt(Nanosecond(t) \div nanoDivisor)
    IN  NOr(IF NCmp(seconds, NOfInt(secondMask)) > 0 THEN NOfInt(secondMask)
            ELSE seconds, NLow(NShl(nanos, 30), 64))

NewCTX40(t) ==
    LET seconds == I64Sub(Unix(t), NOfInt(epoch))
        nanos   == NOfInt(Nanosecond(t) \div nanoDivisor)
    IN  NOr(NAnd(seconds, NOfInt(secondMask)), NLow(NShl(nanos, 30), 64))

Time40(ct) ==
    LET seconds == I64Add(NAnd(ct, NOfInt(secondMask)), NOfInt(epoch))
        nanos   == NLow(NMul(NShr(ct, 30), NOfInt(nanoDivisor)), 64)
    IN  TimeUnix(seconds, nanos)

\* binary.BigEndian.PutUint32(b[0:4], v)
PutUint32(v) == <<Byte(NShr(v, 24)), Byte(NShr(v, 16)), Byte(NShr(v, 8)), Byte(v)>>

\* binary.BigEndian.Uint32(b[0:4])
Uint32(b) == NOr(NOr(NShl(NOfInt(b[1]), 24), NShl(NOfInt(b[2]), 16)),
                 NOr(NShl(NOfInt(b[3]), 8), NOfInt(b[4])))

Bytes40(ct) == PutUint32(U32(NShr(ct, 8))) \o <<Byte(ct)>>

\* FromBytes without the fifth byte
FromBytes40HighOnly(b) ==
    IF Len(b) < 5 THEN Panic ELSE NLow(NShl(Uint32(b), 8), 64)

\* b[0:4] panics when cap(b) < 4 and b[4] when len(b) < 5; the byte slices
\* here have cap(b) = len(b)
FromBytes40(b) ==
    IF Len(b) < 5 THEN Panic
    ELSE NOr(NLow(NShl(Uint32(b), 8), 64), NOfInt(b[5]))

(***************************************************************************)
(* The state machine: one use of the package.  A run starts from a time    *)
(* to encode, from a CTX value, or from a byte slice received from outside,*)
(* and calls NewCTX, Bytes, FromBytes and Time on what it has.             *)
(***************************************************************************)
VARIABLES
    variant,    \* "dynamic" (src/ctx.go) or "fixed" (src/unnamed/part_000)
    arch,       \* the architecture the package was built for
    t,          \* the time.Time given to NewCTX, or NoTime
    ct,         \* the CTX in hand, or None
    bytes,      \* the byte slice in hand, or NoBytes
    restored,   \* the result of FromBytes(bytes): a CTX, Panic, or None
    decoded,    \* ct.Time(), or NoTime
    redecoded   \* restored.Time(), or NoTime

vars == <<variant, arch, t, ct, bytes, restored, decoded, redecoded>>

None == <<-1>>
NoBytes == <<-1>>
NoTime == [sec |-> <<-1>>, nsec |-> -1]

\* the longest byte slice handed to FromBytes
MaxLen == 6

\* the bytes the received slices are made of
ByteSamples == {0, 1, 255}

RECURSIVE SeqsOfLen(_, _)
SeqsOfLen(S, n) == IF n = 0 THEN {<< >>}
                   ELSE {<<x>> \o q : x \in S, q \in SeqsOfLen(S, n - 1)}

RawBytes == UNION {SeqsOfLen(ByteSamples, n) : n \in 0..MaxLen}

\* the instant as far before the Unix epoch as u is after it (and conversely)
Mirror(u) ==
    IF u.nsec = 0 THEN [sec |-> I64Sub(<< >>, u.sec), nsec |-> 0]
    ELSE [sec  |-> I64Sub(I64Sub(<< >>, u.sec), <<1>>),
          nsec |-> 1000000000 - u.nsec]

\* distances from the Unix epoch given to the dynamic-scale NewCTX:
\* <<seconds, nanoseconds>>; each is taken after and before the epoch
Distances32 ==
    {<<0, 1>>, <<0, 3>>, <<0, 255>>, <<0, 3000000>>, <<0, 3906250>>,
     <<0, 500000000>>, <<0, 999999999>>, <<1, 0>>, <<1, 500000000>>,
     <<2, 147483646>>, <<2, 147483647>>, <<2, 147483648>>, <<200, 0>>,
     <<999, 999999999>>, <<1000, 0>>, <<5000, 250000000>>, <<999999, 0>>,
     <<1000000, 0>>, <<86400000, 0>>,
     <<1699999999, 0>>, <<1699999999, 500000000>>, <<1700000000, 0>>,
     <<1700000000, 123456789>>, <<1700000001, 0>>, <<1762183000, 1>>}

\* 2^63 - 1 and 2^63 nanoseconds after the Unix epoch: the last instant whose
\* UnixNano fits an int64, and the first whose UnixNano does not
Far32 ==
    LET sec == NDivMod(MinInt64, Billion)[1]
    IN  {[sec |-> sec, nsec |-> 854775807], [sec |-> sec, nsec |-> 854775808]}

Times32 ==
    LET after == {[sec |-> NOfInt(d[1]), nsec |-> d[2]] : d \in Distances32}
                 \cup Far32
    IN  after \cup {Mirror(u) : u \in after} \cup {[sec |-> << >>, nsec |-> 0]}

\* seconds relative to the 2020 epoch given to the fixed-epoch NewCTX:
\* 1986-01-01, the seconds around the epoch, 2025-01-02, the end of the
\* 30-bit span, 2054-12-31T23:59:59, 40 years after the epoch
Deltas40 ==
    {-1262304000, -1072915200, -1073741824, -86400, -1, 0, 1, 826624,
     157921342, 1073741823, 1073741824, 1104537599, 1262304000}

Nanos40 == {0, 1, 976562, 976563, 999999, 1000000, 123456789, 999000000,
            999999999}

Times40 ==
    {[sec |-> I64Add(NOfInt(epoch), I64OfInt(d)), nsec |-> n] :
        d \in Deltas40, n \in Nanos40}
    \cup {[sec |-> MinInt64, nsec |-> 0], [sec |-> MaxInt64, nsec |-> 999999999],
          [sec |-> << >>, nsec |-> 0]}

\* CTX values taken as they are: limbs of 13 bits, least significant first
RawCTX32 ==
    {NNorm(<<l1, l2, l3>>) : l1 \in {0, 255, 768, 4351, 8191},
                             l2 \in {0, 1, 8191}, l3 \in {0, 8, 23, 48, 63}}

\* below 2^40 (the fourth limb is one bit), and 2^40 and above
RawCTX40 ==
    {NNorm(<<l1, l2, l3, l4>>) : l1 \in {0, 1, 255, 1023, 8191},
                                 l2 \in {0, 8191}, l3 \in {0, 16, 8191},
                                 l4 \in {0, 1, 2, 8191}}
    \cup {NSub(Two64, <<1>>)}

Variants == {"dynamic", "fixed"}

Init ==
    /\ variant \in Variants
    /\ arch \in Archs
    /\ restored = None
    /\ decoded = NoTime
    /\ redecoded = NoTime
    /\ \/ /\ t \in (IF variant = "dynamic" THEN Times32 ELSE Times40)
          /\ ct = None
          /\ bytes = NoBytes
       \/ /\ t = NoTime
          /\ ct \in (IF variant = "dynamic" THEN RawCTX32 ELSE RawCTX40)
          /\ bytes = NoBytes
       \/ /\ t = NoTime
          /\ ct = None
          /\ bytes \in RawBytes

\* ct := NewCTX(t)
NewCTX ==
    /\ t # NoTime
    /\ ct = None
    /\ ct' = IF variant = "dynamic" THEN NewCTX32(t, arch) ELSE NewCTX40(t)
    /\ UNCHANGED <<variant, arch, t, bytes, restored, decoded, redecoded>>

\* decoded := ct.Time()
Time ==
    /\ ct # None
    /\ decoded = NoTime
    /\ decoded' = IF variant = "dynamic" THEN Time32(ct, arch) ELSE Time40(ct)
    /\ UNCHANGED <<variant, arch, t, ct, bytes, restored, redecoded>>

\* bytes := ct.Bytes()
Bytes ==
    /\ ct # None
    /\ bytes = NoBytes
    /\ bytes' = IF variant = "dynamic" THEN Bytes32(ct) ELSE Bytes40(ct)
    /\ UNCHANGED <<variant, arch, t, ct, restored, decoded, redecoded>>

\* restored := FromBytes(bytes); a panic ends the run
FromBytes ==
    /\ bytes # NoBytes
    /\ restored = None
    /\ restored' = IF variant = "dynamic" THEN FromBytes32(bytes)
                   ELSE FromBytes40(bytes)
    /\ UNCHANGED <<variant, arch, t, ct, bytes, decoded, redecoded>>

\* redecoded := restored.Time()
TimeRestored ==
    /\ restored # None
    /\ restored # Panic
    /\ redecoded = NoTime
    /\ redecoded' = IF variant = "dynamic" THEN Time32(restored, arch)
                    ELSE Time40(restored)
    /\ UNCHANGED <<variant, arch, t, ct, bytes, restored, decoded>>

Next == NewCTX \/ Time \/ Bytes \/ FromBytes \/ TimeRestored

Spec == Init /\ [][Next]_vars

(***************************************************************************)
(* Properties.                                                             *)
(***************************************************************************)
\* L: the length of the serialized form
WireLen == IF variant = "dynamic" THEN 4 ELSE 5

EpochTime == [sec |-> << >>, nsec |-> 0]

\* -1, 0, 1 as x < y, x = y, x > y, for int64 x and y
I64Cmp(x, y) == NCmp(NLow(NAdd(x, MinInt64), 64), NLow(NAdd(y, MinInt64), 64))

\* the nanoseconds from the instant -2^63 s to u, and the number of
\* nanoseconds between two instants
NanosSinceFirst(u) ==
    NAdd(NMul(NLow(NAdd(u.sec, MinInt64), 64), Billion), NOfInt(u.nsec))

NanosBetween(u, v) ==
    IF NCmp(NanosSinceFirst(u), NanosSinceFirst(v)) >= 0
    THEN NSub(NanosSinceFirst(u), NanosSinceFirst(v))
    ELSE NSub(NanosSinceFirst(v), NanosSinceFirst(u))

\* the int64 second d seconds after the 2020 epoch (before it for d < 0)
EpochPlus(d) == I64Add(NOfInt(epoch), I64OfInt(d))

\* C1: serialization round trip.  A CTX value that was serialized with Bytes
\* and read back with FromBytes is the same value, bit for bit: every 32-bit
\* value of the dynamic-scale format, every value below 2^40 of the
\* fixed-epoch format.
RoundTripExact ==
    (/\ ct # None
     /\ restored # None
     /\ (variant = "fixed" => NBitLen(ct) <= 40))
        => restored = ct

\* a fixed-epoch value made by NewCTX with a fraction (bits above 30) and a
\* nonzero low byte came back unchanged
RoundTripExactWitness ==
    /\ variant = "fixed"
    /\ t # NoTime
    /\ ct # None
    /\ NBitLen(ct) > 30
    /\ Byte(ct) # 0
    /\ restored = ct

\* C2: Bytes returns exactly L bytes, the big-endian form of the value: byte
\* i is (v >> 8*(L-1-i)) & 0xFF for every value below 2^(8L), and the zero
\* CTX gives L zero bytes.
BytesBigEndian ==
    (/\ ct # None
     /\ bytes # NoBytes
     /\ NBitLen(ct) <= 8 * WireLen)
        => /\ Len(bytes) = WireLen
           /\ \A i \in 0..(WireLen - 1) :
                 bytes[i + 1] = NToInt(NLow(NShr(ct, 8 * (WireLen - 1 - i)), 8))
           /\ (ct = << >> => \A i \in 1..WireLen : bytes[i] = 0)

\* a value whose first and last bytes differ was serialized
BytesBigEndianWitness ==
    /\ ct # None
    /\ bytes # NoBytes
    /\ Len(bytes) = WireLen
    /\ bytes[1] # 0
    /\ bytes[WireLen] # bytes[1]

\* 1986-01-01T00:00:00Z .. 2054-12-31T23:59:59Z
InDocumentedRange(u) ==
    /\ I64Cmp(Unix(u), EpochPlus(-1072915200)) >= 0
    /\ I64Cmp(Unix(u), EpochPlus(1104537599)) <= 0

\* C3: fixed-epoch format, every time of the documented range 1986..2054:
\* NewCTX(t).Time() has the Unix second of t.
SameSecondInDocumentedRange ==
    (/\ variant = "fixed"
     /\ t # NoTime
     /\ decoded # NoTime
     /\ InDocumentedRange(t))
        => Unix(decoded) = Unix(t)

\* epoch <= t.Unix() < epoch + 2^30
InSecondsSpan(u) ==
    /\ I64Cmp(Unix(u), EpochPlus(0)) >= 0
    /\ I64Cmp(Unix(u), EpochPlus(1073741824)) < 0

\* C4: fixed-epoch format, every time whose seconds fit the 30-bit field:
\* NewCTX(t).Time() is within 1/1024 second (976562 ns) of t.
FixedErrorWithinFraction ==
    (/\ variant = "fixed"
     /\ t # NoTime
     /\ decoded # NoTime
     /\ InSecondsSpan(t))
        => NCmp(NanosBetween(decoded, t), NOfInt(976562)) <= 0

\* a Unix time around 1.7e9 seconds
PresentDay(u) ==
    /\ I64Cmp(Unix(u), NOfInt(1600000000)) >= 0
    /\ I64Cmp(Unix(u), NOfInt(1800000000)) < 0

\* C5: dynamic-scale format, every present-day time:
\* FromBytes(NewCTX(t).Bytes()).Time() is within one second of t.
PresentDayWithinOneSecond ==
    (/\ variant = "dynamic"
     /\ t # NoTime
     /\ redecoded # NoTime
     /\ PresentDay(t))
        => NCmp(NanosBetween(redecoded, t), Billion) <= 0

\* |t.UnixNano()| < 2^31 - 1: the extra multiplier stays 0
NoExtraNeeded(u) == NCmp(I64Mag(UnixNano(u)), NOfInt(2147483647)) < 0

\* the scale field of a dynamic-scale CTX, and the nanoseconds in its unit
ScaleField(c) == NToInt(NShr(NAnd(c, scaleMask), scaleShift))
UnitNanos(c) == <<1, 1000, 1000000, 1000000000>>[ScaleField(c) + 1]

\* C6: dynamic-scale format, every time that needs no extra multiplier:
\* NewCTX(t).Time() is within 1/256 of the unit the scale field selects.
DynamicErrorWithinFraction ==
    (/\ variant = "dynamic"
     /\ t # NoTime
     /\ decoded # NoTime
     /\ NoExtraNeeded(t))
        => NCmp(NMulSmall(NanosBetween(decoded, t), 256), NOfInt(UnitNanos(ct))) <= 0

\* C7: FromBytes of a byte sequence of any length other than L returns the
\* zero CTX, in both formats, and does not panic.
WrongLengthGivesZero ==
    (/\ bytes # NoBytes
     /\ restored # None
     /\ Len(bytes) # WireLen)
        => restored = << >>

\* (t.Unix() - epoch) mod 2^30, from the low 30 bits of t.Unix()
Residue(u) == (NToInt(NLow(Unix(u), 30)) - (epoch % 2^30)) % 2^30

SecondsInHighBits ==
    (/\ variant = "fixed"
     /\ t # NoTime
     /\ ct # None)
        => /\ NShr(ct, 10) = NOfInt(Residue(t))
           /\ NLow(ct, 10) = NOfInt(Nanosecond(t) \div nanoDivisor)

\* every bit of a dynamic-scale CTX but the sign bit
NotSignMask == NSub(NSub(NShl(<<1>>, 32), <<1>>), signMask)

\* The CTX in hand, made from t, and the CTX of the mirrored time have the
\* same scale, magnitude, extra and fraction fields and opposite sign bits,
\* and decode to mirrored instants.
MirrorSymmetric ==
    Bind(NewCTX32(Mirror(t), arch), LAMBDA other :
         /\ NAnd(ct, NotSignMask) = NAnd(other, NotSignMask)
         /\ NAnd(ct, signMask) # NAnd(other, signMask)
         /\ Time32(other, arch) = Mirror(decoded))

\* C9, as stated: sign symmetry of the dynamic-scale format for every
\* distance d > 0 from the Unix epoch: NewCTX(epoch + d) and NewCTX(epoch - d)
\* differ in the sign bit only, and decode to instants at the same distance
\* on opposite sides of the epoch.
SignSymmetryEveryDistance ==
    (/\ variant = "dynamic"
     /\ t # NoTime
     /\ t # EpochTime
     /\ decoded # NoTime)
        => MirrorSymmetric

\* C9, amended: the same for every distance below 2^63 nanoseconds, the
\* distances for which t.UnixNano() is the signed distance of both instants.
SignSymmetryWithinInt64 ==
    (/\ variant = "dynamic"
     /\ t # NoTime
     /\ t # EpochTime
     /\ decoded # NoTime
     /\ NCmp(NanosBetween(t, EpochTime), MinInt64) < 0)
        => MirrorSymmetric

\* a time before the epoch was encoded with the sign bit and a nonzero
\* magnitude field, and decoded to an instant before the epoch
SignSymmetryWitness ==
    /\ variant = "dynamic"
    /\ t # NoTime
    /\ ct # None
    /\ decoded # NoTime
    /\ I64IsNeg(UnixNano(t))
    /\ NAnd(ct, signMask) # << >>
    /\ NAnd(ct, valueMask) # << >>
    /\ I64IsNeg(Unix(decoded))

\* the widest value of the 17-bit magnitude field
MaxMagnitude == Hex(<<1, 15, 15, 15, 15>>)

\* the five fields of a dynamic-scale CTX, each taken with its mask and shift
Extract32(c) ==
    [scale |-> NShr(NAnd(c, scaleMask), scaleShift),
     sign  |-> NShr(NAnd(c, signMask), signShift),
     value |-> NShr(NAnd(c, valueMask), valueShift),
     extra |-> NShr(NAnd(c, extraMask), extraShift),
     frac  |-> NShr(NAnd(c, fracMask), fracShift)]

\* each field of c is the value p that NewCTX had in hand, cut to the width
\* of the field
FieldsAsPacked(c, p) ==
    Bind(Extract32(c), LAMBDA f :
         /\ p.scale \in 0..3
         /\ f.scale = NOfInt(p.scale)
         /\ f.sign = (IF p.negative THEN <<1>> ELSE << >>)
         /\ f.value = NAnd(p.intPart, MaxMagnitude)
         /\ f.extra = NOfInt(p.extra % 16)
         /\ f.frac = NAnd(p.fracPart, Hex(<<15, 15>>)))

\* C11: field isolation, for every time t.  Dynamic-scale format: taking a
\* field of NewCTX(t) with its mask and shift gives the value that was packed
\* into it, cut to the width of the field (scale 2 bits, sign 1, magnitude
\* 17, extra 4, fraction 8), whatever the other fields hold.  Fixed-epoch
\* format: the fraction is below 2^10 and is ct >> 30, the seconds are the
\* low 30 bits, and NewCTX(t) is below 2^40.
FieldIsolation ==
    (/\ t # NoTime
     /\ ct # None)
        => IF variant = "dynamic"
           THEN FieldsAsPacked(ct, Parts32(t, arch))
           ELSE /\ NShr(ct, 30) = NOfInt(Nanosecond(t) \div nanoDivisor)
                /\ NCmp(NShr(ct, 30), NShl(<<1>>, 10)) < 0
                /\ NLow(ct, 30) = NAnd(I64Sub(Unix(t), NOfInt(epoch)),
                                       NOfInt(secondMask))
                /\ NCmp(ct, NShl(<<1>>, 40)) < 0

\* a dynamic-scale CTX was made from a time before the epoch whose integer
\* part is wider than the magnitude field, with a nonzero extra
FieldIsolationWitness ==
    /\ variant = "dynamic"
    /\ t # NoTime
    /\ ct # None
    /\ Bind(Parts32(t, arch), LAMBDA p :
             /\ p.negative
             /\ p.extra > 0
             /\ NCmp(p.intPart, MaxMagnitude) > 0
             /\ NAnd(ct, signMask) = signMask)

\* C12: dynamic-scale NewCTX, the extra loop: it ends with extra in 0..15,
\* and whenever it ends with extra below 15 the integer part that is packed
\* is at most 2^17 - 1, so that the mask 0x1FFFF removes nothing.
MagnitudeFitsBelowCap ==
    (/\ variant = "dynamic"
     /\ t # NoTime
     /\ ct # None)
        => Bind(Parts32(t, arch), LAMBDA p :
                /\ p.extra \in 0..15
                /\ p.extra < 15 => NCmp(p.intPart, MaxMagnitude) <= 0)

\* the distance of an instant from the Unix epoch, in nanoseconds
EpochDistance(u) == NanosBetween(u, EpochTime)

\* C13: dynamic-scale Time(), the extra field: for a CTX whose extra field
\* is below 15 and whose magnitude and fraction are not both zero, the CTX
\* that differs from it only by an extra field one higher decodes to an
\* instant 1000 times farther from the Unix epoch (to within one part in a
\* thousand and the truncation to whole nanoseconds).
ExtraMultipliesDistance ==
    (/\ variant = "dynamic"
     /\ ct # None
     /\ decoded # NoTime
     /\ NCmp(NShr(NAnd(ct, extraMask), extraShift), NOfInt(15)) < 0
     /\ NAnd(ct, NOr(valueMask, fracMask)) # << >>)
        => Bind(EpochDistance(decoded), LAMBDA d1 :
           Bind(Time32(NAdd(ct, NShl(<<1>>, extraShift)), arch), LAMBDA next :
           Bind(EpochDistance(next), LAMBDA d2 :
                /\ NCmp(NMulSmall(d1, 999), d2) <= 0
                /\ NCmp(d2, NAdd(NMulSmall(d1, 1001), NOfInt(1000))) <= 0)))

====
